---- MODULE Spec2Model ----
(***************************************************************************)
(* Pet state access layer of pixelpet (src/app/services/pet_service.py):   *)
(* DatabaseManager, PetRepository and ShopRepository over a relational     *)
(* store (users, pets, items, pet_items, game_sessions) and a Redis cache. *)
(***************************************************************************)
EXTENDS Integers, Sequences, FiniteSets, TLC

VARIABLES pool, redis_client, redis_up, users, pets, pet_items, game_sessions,
          cache, now, last, conc

vars == <<pool, redis_client, redis_up, users, pets, pet_items, game_sessions,
          cache, now, last, conc>>

-----------------------------------------------------------------------------
(* Bounds of the model *)

MaxTime == 2

(* Inputs *)
Users == {1, 2}
None == "None"

(* items table: immutable reference data (id, name unique, category, price) *)
Catalog ==
  << [id |-> 1, name |-> "medicine", category |-> "care", price |-> 3],
     [id |-> 2, name |-> "toy",      category |-> "fun",  price |-> 1],
     [id |-> 3, name |-> "potion",   category |-> "care", price |-> 2] >>

(* SELECT * FROM items ORDER BY category, price *)
ItemsOrdered == << Catalog[3], Catalog[1], Catalog[2] >>

ItemNames == {"potion", "ghost"}
AdjustNames == {"toy", "ghost"}
Quantities == {-1, 2}
Deltas == {-2, 1}
UpdateInputs ==
  { << >>, [hunger |-> 7], [coins |-> 4], [name |-> "Hacked"],
    [hunger |-> 7, name |-> "Hacked"] }

Range(s) == {s[i] : i \in DOMAIN s}

-----------------------------------------------------------------------------
(* Store helpers: the SQL statements of the repositories *)

PetIdsOf(ps, user_id) == {i \in DOMAIN ps : ps[i].user_id = user_id}

ItemsNamed(item_name) == {c \in Range(Catalog) : c.name = item_name}

(* pets row as inserted by create_pet; the remaining columns take the      *)
(* schema defaults                                                          *)
NewPetRow(user_id, name, t) ==
  [user_id |-> user_id, name |-> name, hunger |-> 5, coins |-> 2,
   birth_time |-> [epoch |-> t], last_update |-> [epoch |-> t]]

(* INSERT INTO pets ... ON CONFLICT (user_id) DO UPDATE: the user's row is *)
(* replaced                                                                *)
InsertPet_on_conflict(ps, row) ==
  IF PetIdsOf(ps, row.user_id) = {} THEN Append(ps, row)
  ELSE [i \in DOMAIN ps |-> IF ps[i].user_id = row.user_id THEN row ELSE ps[i]]

(* INSERT INTO pets (user_id, name, birth_time) VALUES ($1, $2, NOW())     *)
(* RETURNING id: a new row with the next id                                *)
InsertPet(ps, row) == Append(ps, row)

(* INSERT INTO pet_items ... SELECT $1, id, CASE ... END FROM items *)
SeedItems(inv, pet_id) ==
  [k \in DOMAIN inv \cup {<<pet_id, c.id>> : c \in Range(Catalog)} |->
     IF k[1] = pet_id
       THEN LET c == CHOOSE c \in Range(Catalog) : c.id = k[2]
            IN IF c.name = "medicine" THEN 1
               ELSE IF c.name = "toy" THEN 1
               ELSE 0
       ELSE inv[k]]

(* Statements run outside a transaction block: each one commits at once *)
transaction_autocommit(before, after, committed) == after

(* conn.transaction(): commit on normal exit, rollback on an exception *)
transaction(before, after, committed) == IF committed THEN after ELSE before

(* UPDATE pets SET coins = coins - $1 WHERE user_id = $2 *)
DeductCoins(ps, user_id, total_cost) ==
  [i \in DOMAIN ps |->
     IF ps[i].user_id = user_id
       THEN [ps[i] EXCEPT !.coins = @ - total_cost]
       ELSE ps[i]]

(* ON CONFLICT ... DO UPDATE SET quantity = $3: the row is overwritten *)
UpsertItem_overwrite(inv, pet_id, item_id, quantity) ==
  IF <<pet_id, item_id>> \in DOMAIN inv
    THEN [inv EXCEPT ![<<pet_id, item_id>>] = quantity]
    ELSE inv @@ (<<pet_id, item_id>> :> quantity)

(* INSERT INTO pet_items ... ON CONFLICT (pet_id, item_id)                  *)
(* DO UPDATE SET quantity = pet_items.quantity + $3                         *)
UpsertItem(inv, pet_id, item_id, quantity) ==
  IF <<pet_id, item_id>> \in DOMAIN inv
    THEN [inv EXCEPT ![<<pet_id, item_id>>] = @ + quantity]
    ELSE inv @@ (<<pet_id, item_id>> :> quantity)

(* SELECT i.id, i.price, p.id as pet_id, p.coins FROM items i, pets p       *)
(* WHERE i.name = $1 AND p.user_id = $2: the rows fetchrow may return       *)
PurchaseRows(ps, item_name, user_id) ==
  {[id |-> c.id, price |-> c.price, pet_id |-> p, coins |-> ps[p].coins] :
     c \in ItemsNamed(item_name), p \in PetIdsOf(ps, user_id)}

(* SET quantity = quantity + $3, with no clamp *)
GREATEST_unclamped(a, b) == b

GREATEST(a, b) == IF a >= b THEN a ELSE b

(* UPDATE pet_items SET quantity = GREATEST(0, quantity + $3) FROM pets p,  *)
(* items i WHERE ... p.user_id = $1 AND i.name = $2                         *)
AdjustItems(ps, inv, user_id, item_name, quantity_change) ==
  [k \in DOMAIN inv |->
     IF /\ k[1] \in PetIdsOf(ps, user_id)
        /\ \E c \in ItemsNamed(item_name) : c.id = k[2]
       THEN GREATEST(0, inv[k] + quantity_change)
       ELSE inv[k]]

(* game_sessions row as inserted by record_game_session *)
SessionRow(pet_id, game_type, result, exp_gained, coins_gained) ==
  [pet_id |-> pet_id, game_type |-> game_type, result |-> result,
   experience_gained |-> exp_gained, coins_gained |-> coins_gained]

(* The ids of the user's pet rows, in id order *)
PetIdSeq(ps, user_id) ==
  SelectSeq([i \in 1..Len(ps) |-> i], LAMBDA i : ps[i].user_id = user_id)

(* INSERT INTO game_sessions (...) SELECT p.id, $2, $3, $4, $5 FROM pets p  *)
(* WHERE p.user_id = $1: one row per pet row of the user                    *)
InsertSessions(gs, ps, user_id, game_type, result, exp_gained, coins_gained) ==
  gs \o [k \in 1..Len(PetIdSeq(ps, user_id)) |->
          SessionRow(PetIdSeq(ps, user_id)[k], game_type, result, exp_gained,
                     coins_gained)]

(* asyncpg binds a statement only when it is given as many arguments as    *)
(* the statement has $n placeholders                                       *)
Bindable(placeholders, arguments) == placeholders = arguments

(* The pet rows with last_update > NOW() - hours_threshold *)
ActiveIds(ps, hours_threshold, t) ==
  {i \in DOMAIN ps : ps[i].last_update.epoch > t - hours_threshold}

(* ORDER BY last_update ASC (rows with equal last_update: by id) *)
RECURSIVE OrderByLastUpdate(_, _)
OrderByLastUpdate(ps, ids) ==
  IF ids = {} THEN << >>
  ELSE LET first == CHOOSE i \in ids : \A j \in ids :
                      \/ ps[i].last_update.epoch < ps[j].last_update.epoch
                      \/ /\ ps[i].last_update.epoch = ps[j].last_update.epoch
                         /\ i <= j
       IN << [user_id |-> ps[first].user_id, id |-> first,
              name |-> ps[first].name, hunger |-> ps[first].hunger,
              last_update |-> ps[first].last_update] >>
          \o OrderByLastUpdate(ps, ids \ {first})

(* The allow-list with the pet's name in it *)
AllowedFields_with_name ==
  {"hunger", "happiness", "cleanliness", "health", "energy", "discipline",
   "level", "experience", "coins", "is_sick", "is_sleeping", "care_mistakes",
   "games_won", "games_lost", "name"}

AllowedFields ==
  {"hunger", "happiness", "cleanliness", "health", "energy", "discipline",
   "level", "experience", "coins", "is_sick", "is_sleeping", "care_mistakes",
   "games_won", "games_lost"}

(* UPDATE pets SET <allowed fields>, last_update = NOW(): no WHERE clause *)
UpdatePets_all_rows(ps, user_id, updates, set_clauses, t) ==
  [i \in DOMAIN ps |->
     [f \in DOMAIN ps[i] |->
        IF f \in set_clauses THEN updates[f]
        ELSE IF f = "last_update" THEN [epoch |-> t]
        ELSE ps[i][f]]]

(* UPDATE pets SET <allowed fields>, last_update = NOW() WHERE user_id = $1 *)
UpdatePets(ps, user_id, updates, set_clauses, t) ==
  [i \in DOMAIN ps |->
     IF ps[i].user_id = user_id
       THEN [f \in DOMAIN ps[i] |->
               IF f \in set_clauses THEN updates[f]
               ELSE IF f = "last_update" THEN [epoch |-> t]
               ELSE ps[i][f]]
       ELSE ps[i]]

-----------------------------------------------------------------------------
(* Cache helpers *)

PetKey(user_id) == <<"pet", user_id>>
ShopKey == <<"shop", "items">>
CacheKeys == {PetKey(u) : u \in Users} \cup {ShopKey}

(* redis get of a key that is not set *)
NoEntry == [absent |-> TRUE]

(* datetime.timestamp(): the stored datetime as a numeric epoch *)
timestamp(dt) == dt.epoch

(* json.dumps / json.loads: the cached text and its parse *)
json_dumps(data) == [json |-> data]
json_loads(text) == text.json

(* The row get_pet_by_user_id selects for pet_id, with its inventory        *)
(* aggregated by item name, timestamps converted                            *)
PetData(S, pet_id) ==
  LET row == S.pets[pet_id]
      names == {c.name : c \in {c \in Range(Catalog) :
                                  <<pet_id, c.id>> \in DOMAIN S.pet_items}}
  IN [id |-> pet_id, user_id |-> row.user_id, name |-> row.name,
      hunger |-> row.hunger, coins |-> row.coins,
      birth_time |-> timestamp(row.birth_time),
      last_update |-> timestamp(row.last_update),
      items |-> [n \in names |->
                   S.pet_items[<<pet_id,
                                 (CHOOSE c \in Range(Catalog) : c.name = n).id>>]]]

(* if cached and json.loads(cached): an empty cached value counts as a miss *)
CacheHit_parsed(cached) == cached # NoEntry /\ DOMAIN json_loads(cached) # {}

(* if cached: redis get returned a text (json.dumps never writes "") *)
CacheHit(cached) == cached # NoEntry

(* The write path leaves the cache key alone *)
cache_delete_skipped(db, S, key) == S

(* if self.db.redis_client: self.db.redis_client.delete(key) *)
cache_delete(db, S, key) ==
  IF db.redis_client # None THEN [S EXCEPT !.cache[key] = NoEntry] ELSE S

(* A cache command fails: the client exists and the backend is down *)
CacheFails(db) == db.redis_client # None /\ ~db.redis_up

(* A statement of a read operation that reads the store has run *)
Read(S) == [S EXCEPT !.reads = @ + 1]

Return(S, r) == [state |-> S, raised |-> FALSE, result |-> r]
Raise(S) == [state |-> S, raised |-> TRUE, result |-> [exception |-> TRUE]]

(* The return value of update_pet *)
Bool(b) == [value |-> b]

Absent == [found |-> FALSE]
Found(pet_data) == [found |-> TRUE, pet |-> pet_data]

-----------------------------------------------------------------------------
(* DatabaseManager. db is the manager: pool, redis_client and whether the  *)
(* Redis server answers.                                                   *)

(* async with self.pool.acquire() as conn: await conn.fetchval("SELECT 1") *)
(* store_fault: the store does not answer                                  *)
ProbeStore(db, store_fault) == db.pool = "open" /\ ~store_fault

(* self.redis_client.ping() *)
ProbeRedis(db) == db.redis_client # None /\ db.redis_up

(* The two probes with no try/except around them *)
health_check_unguarded(db, store_fault) ==
  [raised |-> ~(ProbeStore(db, store_fault) /\ ProbeRedis(db)),
   result |-> [postgresql |-> ProbeStore(db, store_fault),
               redis |-> ProbeRedis(db)]]

(* Each probe runs in its own try ... except Exception, which also catches *)
(* the AttributeError of a pool or client that is still None               *)
health_check(db, store_fault) ==
  [raised |-> FALSE,
   result |-> [postgresql |-> ProbeStore(db, store_fault),
               redis |-> ProbeRedis(db)]]

(* fault 1: asyncpg.create_pool raises; fault 2: redis.from_url raises;    *)
(* both are re-raised by the except clause. redis.from_url connects to     *)
(* nothing, and the result of health_check is not looked at                *)
initialize(db, fault) ==
  LET d1 == [db EXCEPT !.pool = "open"]
      d2 == [d1 EXCEPT !.redis_client = "client"]
  IN IF fault = 1 THEN [db |-> db, raised |-> TRUE,
                        result |-> [exception |-> TRUE]]
     ELSE IF fault = 2 THEN [db |-> d1, raised |-> TRUE,
                             result |-> [exception |-> TRUE]]
     ELSE [db |-> d2, raised |-> health_check(d2, FALSE).raised,
           result |-> [void |-> TRUE]]

(* if self.pool: await self.pool.close(); if self.redis_client:            *)
(* self.redis_client.close(): the closed pool refuses acquire, the client  *)
(* object stays and reconnects on its next command                         *)
close(db) ==
  IF db.pool # None THEN [db EXCEPT !.pool = "closed"] ELSE db

-----------------------------------------------------------------------------
(* Repository operations. db is the manager (pool, redis_client and the    *)
(* backend's availability), S the store and cache contents. A pool that is *)
(* None or closed makes self.db.pool.acquire() raise.                      *)

(* The pet ids fetchrow may return for the user (row order is unspecified) *)
FetchChoices(ps, user_id) ==
  IF PetIdsOf(ps, user_id) = {} THEN {0} ELSE PetIdsOf(ps, user_id)

get_pet_by_user_id(db, S, user_id, pet_id, fault) ==
  LET cache_key == PetKey(user_id) IN
  IF CacheFails(db) THEN Raise(S)
  ELSE IF db.redis_client # None /\ CacheHit(S.cache[cache_key])
    THEN Return(S, Found(json_loads(S.cache[cache_key])))
  ELSE IF db.pool # "open" \/ fault THEN Raise(S)
  ELSE IF PetIdsOf(S.pets, user_id) = {} THEN Return(Read(S), Absent)
  ELSE LET pet_data == PetData(S, pet_id) IN
       IF db.redis_client # None
         THEN Return([Read(S) EXCEPT !.cache[cache_key] = json_dumps(pet_data)],
                     Found(pet_data))
         ELSE Return(Read(S), Found(pet_data))

create_pet(db, S, user_id, name, t, fault, pet_id) ==
  IF db.pool # "open" THEN Raise(S)
  ELSE
    LET s1 == [S EXCEPT !.users = @ \cup {user_id}]
        s2 == [s1 EXCEPT !.pets = InsertPet(@, NewPetRow(user_id, name, t))]
        s3 == [s2 EXCEPT !.pet_items = SeedItems(@, Len(s2.pets))]
    IN IF fault = 1 THEN Raise(transaction(S, S, FALSE))
       ELSE IF fault = 2 THEN Raise(transaction(S, s1, FALSE))
       ELSE IF fault = 3 THEN Raise(transaction(S, s2, FALSE))
       ELSE LET c == transaction(S, s3, TRUE) IN
            IF CacheFails(db) THEN Raise(c)
            ELSE get_pet_by_user_id(db, cache_delete(db, c, PetKey(user_id)),
                                    user_id, pet_id, fault = 4)

update_pet(db, S, user_id, updates, t) ==
  IF DOMAIN updates = {} THEN Return(S, Bool(FALSE))
  ELSE
    LET set_clauses == DOMAIN updates \cap AllowedFields IN
    IF set_clauses = {} THEN Return(S, Bool(FALSE))
    ELSE IF db.pool # "open" THEN Raise(S)
    ELSE LET s1 == [S EXCEPT !.pets =
                      UpdatePets(@, user_id, updates, set_clauses, t)]
         IN IF CacheFails(db) THEN Raise(s1)
            ELSE Return(cache_delete(db, s1, PetKey(user_id)),
                        Bool(PetIdsOf(S.pets, user_id) # {}))

update_pet_items(db, S, user_id, item_name, quantity_change) ==
  IF db.pool # "open" THEN Raise(S)
  ELSE LET s1 == [S EXCEPT !.pet_items =
                    AdjustItems(S.pets, @, user_id, item_name, quantity_change)]
       IN IF CacheFails(db) THEN Raise(s1)
          ELSE Return(cache_delete(db, s1, PetKey(user_id)), [void |-> TRUE])

(* conn.fetch(query, hours_threshold): the query text holds the literal    *)
(* INTERVAL '%s hours' and no $1, so the statement has no placeholder for  *)
(* the one argument passed and is refused before any row is read           *)
get_all_active_pets(db, S, hours_threshold, t) ==
  IF db.pool # "open" THEN Raise(S)
  ELSE IF ~Bindable(0, 1) THEN Raise(S)
  ELSE Return(Read(S),
              OrderByLastUpdate(S.pets, ActiveIds(S.pets, hours_threshold, t)))

record_game_session(db, S, user_id, game_type, result, exp_gained, coins_gained) ==
  IF db.pool # "open" THEN Raise(S)
  ELSE Return([S EXCEPT !.game_sessions =
                 InsertSessions(@, S.pets, user_id, game_type, result,
                                exp_gained, coins_gained)],
              [void |-> TRUE])

get_shop_items(db, S) ==
  IF CacheFails(db) THEN Raise(S)
  ELSE IF db.redis_client # None /\ CacheHit(S.cache[ShopKey])
    THEN Return(S, json_loads(S.cache[ShopKey]))
  ELSE IF db.pool # "open" THEN Raise(S)
  ELSE IF db.redis_client # None
    THEN Return([Read(S) EXCEPT !.cache[ShopKey] = json_dumps(ItemsOrdered)],
                ItemsOrdered)
    ELSE Return(Read(S), ItemsOrdered)

NotFound == [success |-> FALSE, error |-> "Item or pet not found"]
Insufficient == [success |-> FALSE, error |-> "Insufficient coins"]
Success(total_cost) == [success |-> TRUE, cost |-> total_cost]

(* fetchrow found no row *)
NoRow == [id |-> 0, price |-> 0, pet_id |-> 0, coins |-> 0]

(* The rows fetchrow may return in purchase_item (row order is unspecified) *)
PurchaseChoices(ps, item_name, user_id) ==
  IF PurchaseRows(ps, item_name, user_id) = {}
    THEN {NoRow} ELSE PurchaseRows(ps, item_name, user_id)

(* if row['coins'] <= total_cost: an exact balance is refused *)
InsufficientCoins_strict(row, total_cost) == row.coins <= total_cost

(* if row['coins'] < total_cost *)
InsufficientCoins(row, total_cost) == row.coins < total_cost

(* row: the row fetchrow returned *)
purchase_item(db, S, user_id, item_name, quantity, row, fault) ==
  IF db.pool # "open" THEN Raise(S)
  ELSE IF fault = 1 THEN Raise(transaction(S, S, FALSE))
  ELSE IF row = NoRow THEN Return(transaction(S, S, TRUE), NotFound)
  ELSE
    LET total_cost == row.price * quantity
        s1 == [S EXCEPT !.pets = DeductCoins(@, user_id, total_cost)]
        s2 == [s1 EXCEPT !.pet_items =
                 UpsertItem(@, row.pet_id, row.id, quantity)]
    IN IF InsufficientCoins(row, total_cost)
         THEN Return(transaction(S, S, TRUE), Insufficient)
       ELSE IF fault = 2 THEN Raise(transaction(S, S, FALSE))
       ELSE IF fault = 3 THEN Raise(transaction(S, s1, FALSE))
       ELSE Return(transaction(S, s2, TRUE), Success(total_cost))

-----------------------------------------------------------------------------
(* State machine: one action per operation, run to completion. A step     *)
(* binds the outcome of the handler once (\E out \in {...}) and takes the   *)
(* new store, cache and last call from it.                                 *)

DB == [pool |-> pool, redis_client |-> redis_client, redis_up |-> redis_up]
(* reads: the store reads of the read operations, counted from the call on *)
St == [users |-> users, pets |-> pets, pet_items |-> pet_items,
       game_sessions |-> game_sessions, cache |-> cache, reads |-> 0]

NoUpdates == << >>
NoCall == [op |-> "none", raised |-> FALSE, fault |-> 0,
           result |-> [void |-> TRUE], cached |-> FALSE]

(* A pet that is in the store when the process starts: created before      *)
(* "potion" entered the catalog (it has no potion row), 4 coins left       *)
LegacyPet == [NewPetRow(1, "Tamagotchi", 0) EXCEPT !.coins = 4]
LegacyItems == (<<1, 1>> :> 1) @@ (<<1, 2>> :> 1)
NoItems == [k \in {} |-> 0]

Init ==
  /\ pool = None
  /\ redis_client = None
  /\ redis_up = TRUE
  /\ \E legacy \in BOOLEAN :
       /\ users = IF legacy THEN {1} ELSE {}
       /\ pets = IF legacy THEN <<LegacyPet>> ELSE << >>
       /\ pet_items = IF legacy THEN LegacyItems ELSE NoItems
  /\ game_sessions = << >>
  /\ cache = [k \in CacheKeys |-> NoEntry]
  /\ now = 0
  /\ last = NoCall
  /\ conc = [on |-> FALSE]

Apply(out) ==
  /\ users' = out.state.users
  /\ pets' = out.state.pets
  /\ pet_items' = out.state.pet_items
  /\ game_sessions' = out.state.game_sessions
  /\ cache' = out.state.cache

StoreOf(S) == <<S.users, S.pets, S.pet_items, S.game_sessions>>

(* The clock: every committed write happens strictly later than the last *)
Tick(out) ==
  now' = IF StoreOf(out.state) # StoreOf(St) THEN now + 1 ELSE now

(* The last call: the operation, whether it raised (fault: with the store *)
(* failing at that statement), what it returned, and whether the user's   *)
(* pet was cached when update was called                                   *)
Called(op, out, fault, cached) ==
  last' = [op |-> op, raised |-> out.raised,
           fault |-> IF out.raised THEN fault ELSE 0,
           result |-> out.result, cached |-> cached]

(* A step of the environment is not a call *)
Env == last' = NoCall

(* DatabaseManager.initialize: the pool and the Redis client are created *)
Initialize ==
  /\ pool = None
  /\ pool' = "open"
  /\ redis_client' = "client"
  /\ Env
  /\ UNCHANGED <<redis_up, users, pets, pet_items, game_sessions, cache, now,
                 conc>>

(* The cache backend goes down or comes back *)
RedisDown ==
  /\ redis_up
  /\ redis_up' = FALSE
  /\ Env
  /\ UNCHANGED <<pool, redis_client, users, pets, pet_items, game_sessions, cache,
                 now, conc>>

RedisUp ==
  /\ ~redis_up
  /\ redis_up' = TRUE
  /\ Env
  /\ UNCHANGED <<pool, redis_client, users, pets, pet_items, game_sessions, cache,
                 now, conc>>

(* A cached key reaches its TTL (setex) and is dropped by the backend *)
Expire(key) ==
  /\ cache[key] # NoEntry
  /\ cache' = [cache EXCEPT ![key] = NoEntry]
  /\ Env
  /\ UNCHANGED <<pool, redis_client, redis_up, users, pets, pet_items,
                 game_sessions, now, conc>>

GetByUser(user_id) ==
  \E pet_id \in FetchChoices(pets, user_id) :
    \E out \in {get_pet_by_user_id(DB, St, user_id, pet_id, FALSE)} :
      /\ Apply(out)
      /\ Called("getByUser", out, 0, FALSE)
      /\ UNCHANGED <<pool, redis_client, redis_up, now, conc>>

(* fault: the statement of the operation at which the store fails, 0 for   *)
(* none; pet_id: the row the closing get_pet_by_user_id fetches            *)
CreateWith(user_id, fault, pet_id) ==
  /\ now < MaxTime
  /\ \E out \in {create_pet(DB, St, user_id, "Tamagotchi", now + 1, fault,
                            pet_id)} :
       /\ Apply(out)
       /\ Called("create", out, fault, FALSE)
       /\ Tick(out)
  /\ UNCHANGED <<pool, redis_client, redis_up, conc>>

Create(user_id) ==
  \E fault \in 0..4 :
    \E pet_id \in PetIdsOf(pets, user_id) \cup {Len(pets) + 1} :
      CreateWith(user_id, fault, pet_id)

Update(user_id, updates) ==
  /\ now < MaxTime
  /\ \E out \in {update_pet(DB, St, user_id, updates, now + 1)} :
       /\ Apply(out)
       /\ Called("update", out, 0, cache[PetKey(user_id)] # NoEntry)
       /\ Tick(out)
  /\ UNCHANGED <<pool, redis_client, redis_up, conc>>

AdjustItemQuantity(user_id, item_name, delta) ==
  /\ now < MaxTime
  /\ \E out \in {update_pet_items(DB, St, user_id, item_name, delta)} :
       /\ Apply(out)
       /\ Called("adjustItemQuantity", out, 0, FALSE)
       /\ Tick(out)
  /\ UNCHANGED <<pool, redis_client, redis_up, conc>>

ListItems ==
  /\ \E out \in {get_shop_items(DB, St)} :
       /\ Apply(out)
       /\ Called("listItems", out, 0, FALSE)
  /\ UNCHANGED <<pool, redis_client, redis_up, now, conc>>

(* row: the row fetchrow returns; fault: the statement at which the store  *)
(* fails, 0 for none                                                       *)
PurchaseWith(user_id, item_name, quantity, row, fault) ==
  /\ now < MaxTime
  /\ \E out \in {purchase_item(DB, St, user_id, item_name, quantity, row,
                               fault)} :
       /\ Apply(out)
       /\ Called("purchase", out, fault, FALSE)
       /\ Tick(out)
  /\ UNCHANGED <<pool, redis_client, redis_up, conc>>

Purchase(user_id, item_name, quantity) ==
  \E fault \in 0..3 :
    \E row \in PurchaseChoices(pets, item_name, user_id) :
      PurchaseWith(user_id, item_name, quantity, row, fault)

RecordSession(user_id, game_type, result, exp_gained, coins_gained) ==
  /\ now < MaxTime
  /\ \E out \in {record_game_session(DB, St, user_id, game_type, result,
                                    exp_gained, coins_gained)} :
       /\ Apply(out)
       /\ Called("recordSession", out, 0, FALSE)
       /\ Tick(out)
  /\ UNCHANGED <<pool, redis_client, redis_up, conc>>

ListStale(hours_threshold) ==
  /\ \E out \in {get_all_active_pets(DB, St, hours_threshold, now)} :
       /\ Apply(out)
       /\ Called("listStale", out, 0, FALSE)
  /\ UNCHANGED <<pool, redis_client, redis_up, now, conc>>

Next ==
  \/ Initialize
  \/ RedisDown
  \/ RedisUp
  \/ \E key \in CacheKeys : Expire(key)
  \/ \E u \in Users : GetByUser(u)
  \/ \E u \in Users : Create(u)
  \/ \E u \in Users, upd \in UpdateInputs : Update(u, upd)
  \/ \E u \in Users, i \in AdjustNames, d \in Deltas : AdjustItemQuantity(u, i, d)
  \/ ListItems
  \/ \E u \in Users, i \in ItemNames, q \in Quantities : Purchase(u, i, q)

Spec == Init /\ [][Next]_vars

-----------------------------------------------------------------------------
(* The pets' activity: creation, stat updates, cached reads and recorded   *)
(* game sessions                                                           *)

GameResults == {"win", "lose"}
StaleHours == {1, 72}

(* The process starts with the store as in Init; shop:items may still be   *)
(* cached from a time when the items table was empty                       *)
InitActivity ==
  /\ pool = None
  /\ redis_client = None
  /\ redis_up = TRUE
  /\ \E legacy \in BOOLEAN :
       /\ users = IF legacy THEN {1} ELSE {}
       /\ pets = IF legacy THEN <<LegacyPet>> ELSE << >>
       /\ pet_items = IF legacy THEN LegacyItems ELSE NoItems
  /\ game_sessions = << >>
  /\ \E shop \in {NoEntry, json_dumps(<< >>)} :
       cache = [k \in CacheKeys |-> IF k = ShopKey THEN shop ELSE NoEntry]
  /\ now = 0
  /\ last = NoCall
  /\ conc = [on |-> FALSE]

NextActivity ==
  \/ Initialize
  \/ RedisDown
  \/ RedisUp
  \/ \E key \in CacheKeys : Expire(key)
  \/ \E u \in Users : GetByUser(u)
  \/ \E u \in Users : Create(u)
  \/ \E u \in Users, upd \in UpdateInputs : Update(u, upd)
  \/ ListItems
  \/ \E u \in Users, r \in GameResults : RecordSession(u, "memory", r, 1, 1)
  \/ \E h \in StaleHours : ListStale(h)

SpecActivity == InitActivity /\ [][NextActivity]_vars

-----------------------------------------------------------------------------
(* The manager's life: initialize (the pool or the client failing or not), *)
(* health checks and close, with the Redis server going down and up        *)

InitializeWith(fault) ==
  /\ pool = None
  /\ \E out \in {initialize(DB, fault)} :
       /\ pool' = out.db.pool
       /\ redis_client' = out.db.redis_client
       /\ Called("initialize", out, fault, FALSE)
  /\ UNCHANGED <<redis_up, users, pets, pet_items, game_sessions, cache, now,
                 conc>>

HealthCheck(store_fault) ==
  /\ Called("healthCheck", health_check(DB, store_fault), 0, FALSE)
  /\ UNCHANGED <<pool, redis_client, redis_up, users, pets, pet_items,
                 game_sessions, cache, now, conc>>

Close ==
  /\ pool' = close(DB).pool
  /\ redis_client' = close(DB).redis_client
  /\ last' = [NoCall EXCEPT !.op = "close"]
  /\ UNCHANGED <<redis_up, users, pets, pet_items, game_sessions, cache, now,
                 conc>>

NextManager ==
  \/ \E fault \in 0..2 : InitializeWith(fault)
  \/ \E store_fault \in BOOLEAN : HealthCheck(store_fault)
  \/ Close
  \/ RedisDown
  \/ RedisUp
  \/ \E key \in CacheKeys : Expire(key)
  \/ \E u \in Users : GetByUser(u)
  \/ ListItems

SpecManager == Init /\ [][NextManager]_vars

-----------------------------------------------------------------------------
(* Two purchase_item calls for user 1 that overlap, statement by statement, *)
(* each in its own READ COMMITTED transaction: a SELECT reads the committed *)
(* rows; an UPDATE locks the user's pet rows until its transaction ends,    *)
(* waits for a lock held by the other transaction, and then applies         *)
(* coins - $1 to the committed row.                                         *)

Procs == {1, 2}
StartCoins == {2, 4, 6}
ConcQuantities == {1, 2}

Idle == [pc |-> "idle", quantity |-> 0, row |-> NoRow, total_cost |-> 0,
         result |-> [void |-> TRUE]]

InitConc ==
  /\ pool = "open"
  /\ redis_client = "client"
  /\ redis_up = TRUE
  /\ users = {1}
  /\ \E c \in StartCoins :
       /\ pets = <<[NewPetRow(1, "Tamagotchi", 0) EXCEPT !.coins = c]>>
       /\ conc = [on |-> TRUE, tx |-> [p \in Procs |-> Idle], lock |-> 0,
                  coins0 |-> c]
  /\ pet_items = SeedItems(NoItems, 1)
  /\ game_sessions = << >>
  /\ cache = [k \in CacheKeys |-> NoEntry]
  /\ now = 0
  /\ last = NoCall

Tx(p) == conc.tx[p]

(* fetchrow, and the two checks on the row it returned *)
TxSelect(p, quantity) ==
  /\ Tx(p).pc = "idle"
  /\ \E row \in PurchaseChoices(pets, "potion", 1) :
       LET total_cost == row.price * quantity IN
       conc' = [conc EXCEPT !.tx[p] =
                  IF row = NoRow
                    THEN [Idle EXCEPT !.pc = "done", !.result = NotFound]
                  ELSE IF InsufficientCoins(row, total_cost)
                    THEN [Idle EXCEPT !.pc = "done", !.result = Insufficient]
                  ELSE [pc |-> "deduct", quantity |-> quantity, row |-> row,
                        total_cost |-> total_cost, result |-> [void |-> TRUE]]]
  /\ UNCHANGED <<pool, redis_client, redis_up, users, pets, pet_items,
                 game_sessions, cache, now, last>>

(* UPDATE pets SET coins = coins - $1: takes the row lock, or waits for it *)
TxDeduct(p) ==
  /\ Tx(p).pc = "deduct"
  /\ conc.lock = 0
  /\ conc' = [conc EXCEPT !.lock = p, !.tx[p].pc = "upsert"]
  /\ UNCHANGED <<pool, redis_client, redis_up, users, pets, pet_items,
                 game_sessions, cache, now, last>>

(* INSERT INTO pet_items ... ON CONFLICT DO UPDATE *)
TxUpsert(p) ==
  /\ Tx(p).pc = "upsert"
  /\ conc' = [conc EXCEPT !.tx[p].pc = "commit"]
  /\ UNCHANGED <<pool, redis_client, redis_up, users, pets, pet_items,
                 game_sessions, cache, now, last>>

(* The transaction block ends: both writes become the committed rows, the  *)
(* lock is released and the call returns success                           *)
TxCommit(p) ==
  /\ Tx(p).pc = "commit"
  /\ pets' = DeductCoins(pets, 1, Tx(p).total_cost)
  /\ pet_items' = UpsertItem(pet_items, Tx(p).row.pet_id, Tx(p).row.id,
                             Tx(p).quantity)
  /\ conc' = [conc EXCEPT !.lock = 0, !.tx[p].pc = "done",
                          !.tx[p].result = Success(Tx(p).total_cost)]
  /\ UNCHANGED <<pool, redis_client, redis_up, users, game_sessions, cache, now,
                 last>>

NextConc ==
  \/ \E p \in Procs, q \in ConcQuantities : TxSelect(p, q)
  \/ \E p \in Procs : TxDeduct(p)
  \/ \E p \in Procs : TxUpsert(p)
  \/ \E p \in Procs : TxCommit(p)

SpecConc == InitConc /\ [][NextConc]_vars

-----------------------------------------------------------------------------
(* Calls that overlap. asyncio runs one coroutine at a time and switches   *)
(* at an await: pool.acquire(), a statement on the session, and the exit   *)
(* of the async with block that hands the session back. The Redis client   *)
(* is the synchronous one, so a cache command and the code around it run   *)
(* without a switch. Every call is for user 1.                             *)

Callers == {1, 2}
MaxCalls == 2

(* max_size of the pool, scaled down to the number of callers *)
PoolSizes == {1, 2}

Operations ==
  { "get_pet_by_user_id", "create_pet", "update_pet", "update_pet_items",
    "get_all_active_pets", "record_game_session", "get_shop_items",
    "purchase_item" }
CallUpdates == { << >>, [hunger |-> 7] }

(* A caller between two calls: what its last call did and returned *)
Resting ==
  [pc |-> "idle", op |-> "none", updates |-> NoUpdates, held |-> 0,
   exc |-> FALSE,
   row |-> NoRow, committed |-> FALSE, cleared |-> FALSE, raised |-> FALSE,
   result |-> [void |-> TRUE]]

InitCalls ==
  /\ pool = "open"
  /\ \E client \in {None, "client"}, up \in BOOLEAN :
       /\ client = None => up
       /\ redis_client = client
       /\ redis_up = up
  /\ \E legacy \in BOOLEAN :
       /\ users = IF legacy THEN {1} ELSE {}
       /\ pets = IF legacy THEN <<LegacyPet>> ELSE << >>
       /\ pet_items = IF legacy THEN LegacyItems ELSE NoItems
  /\ game_sessions = << >>
  /\ cache = [k \in CacheKeys |-> NoEntry]
  /\ now = 0
  /\ last = NoCall
  /\ \E size \in PoolSizes :
       conc = [on |-> TRUE, call |-> [p \in Callers |-> Resting],
               sessions |-> 0, size |-> size, lock |-> 0, started |-> 0]

CallOf(p) == conc.call[p]
InFlight(p) == CallOf(p).pc # "idle"
Waiting(p) == CallOf(p).pc \in {"acquire", "get_acquire"}

(* A list of rows as a call's return value *)
Rows(rows) == [rows |-> rows]

(* return / raise: the call is over *)
Returns(c, result) == [c EXCEPT !.pc = "idle", !.result = result]
Raises(c) ==
  [c EXCEPT !.pc = "idle", !.raised = TRUE, !.result = [exception |-> TRUE]]

(* The sessions a call holds after the exit of one of its                  *)
(* "async with self.db.pool.acquire() as conn" blocks.                     *)
(* A release at the end of the block, not in a finally clause: *)
scoped_exit_on_success(c) == IF c.exc THEN c.held ELSE c.held - 1

(* create_pet with its final get_pet_by_user_id inside its block: the      *)
(* first session is held until the second has been used and given back     *)
scoped_exit_nested(c) ==
  IF c.op = "create_pet" THEN (IF c.pc = "release" THEN c.held ELSE 0)
  ELSE c.held - 1

(* async with: the session goes back whether or not the block raised *)
scoped_exit(c) == c.held - 1

(* The code of get_pet_by_user_id up to its first await: the cache lookup *)
get_prefix(db, c, cached) ==
  IF CacheFails(db) THEN Raises(c)
  ELSE IF db.redis_client # None /\ CacheHit(cached)
    THEN Returns(c, Found(json_loads(cached)))
  ELSE [c EXCEPT !.pc = "get_acquire"]

(* The code of a call up to its first await *)
Prefix(db, c, cached) ==
  IF c.op = "get_pet_by_user_id" THEN get_prefix(db, c, cached)
  ELSE IF c.op = "get_shop_items" /\ CacheFails(db) THEN Raises(c)
  ELSE IF c.op = "get_shop_items" /\ db.redis_client # None /\ CacheHit(cached)
    THEN Returns(c, Rows(json_loads(cached)))
  ELSE IF c.op = "update_pet" /\ DOMAIN c.updates \cap AllowedFields = {}
    THEN Returns(c, Bool(FALSE))
  ELSE [c EXCEPT !.pc = "acquire"]

StoreSame == UNCHANGED <<users, pets, pet_items, game_sessions, now>>
ManagerSame == UNCHANGED <<pool, redis_client, redis_up, last>>

Begin(p, op, updates) ==
  /\ ~InFlight(p)
  /\ conc.started < MaxCalls
  /\ conc' = [conc EXCEPT
       !.started = @ + 1,
       !.call[p] = Prefix(DB, [Resting EXCEPT !.op = op, !.updates =
                               IF op = "update_pet" THEN updates ELSE NoUpdates],
                          cache[IF op = "get_shop_items" THEN ShopKey
                                ELSE PetKey(1)])]
  /\ StoreSame /\ ManagerSame /\ UNCHANGED cache

(* pool.acquire(): waits until a session is free *)
Acquire(p) ==
  /\ Waiting(p)
  /\ conc.sessions < conc.size
  /\ conc' = [conc EXCEPT
       !.sessions = @ + 1,
       !.call[p].held = @ + 1,
       !.call[p].pc = IF CallOf(p).pc = "acquire" THEN "execute"
                      ELSE "get_fetch"]
  /\ StoreSame /\ ManagerSame /\ UNCHANGED cache

(* A statement fails: the exception leaves the block, and a transaction    *)
(* in progress is rolled back, which frees the row lock it holds           *)
Fault(p) ==
  /\ CallOf(p).pc \in {"execute", "deduct", "commit", "get_fetch"}
  /\ conc' = [conc EXCEPT
       !.lock = IF @ = p THEN 0 ELSE @,
       !.call[p].exc = TRUE,
       !.call[p].pc = IF CallOf(p).pc = "get_fetch" THEN "get_release"
                      ELSE "release"]
  /\ StoreSame /\ ManagerSame /\ UNCHANGED cache

(* conn.fetchrow of get_pet_by_user_id *)
Fetch(p) ==
  /\ CallOf(p).pc = "get_fetch"
  /\ \E pet_id \in FetchChoices(pets, 1) :
       conc' = [conc EXCEPT
         !.call[p].pc = "get_release",
         !.call[p].row = IF pet_id = 0 THEN NoRow ELSE PetData(St, pet_id)]
  /\ StoreSame /\ ManagerSame /\ UNCHANGED cache

(* The statements of the block. A single statement commits by itself; an   *)
(* UPDATE of the user's pet rows waits while another transaction holds     *)
(* their lock; the statements of a transaction are not visible before its  *)
(* commit.                                                                 *)
Execute(p) ==
  LET c == CallOf(p) IN
  /\ c.pc = "execute"
  /\ ManagerSame /\ UNCHANGED cache
  /\ \/ /\ c.op = "update_pet"
        /\ conc.lock = 0
        /\ pets' = UpdatePets(pets, 1, c.updates,
                              DOMAIN c.updates \cap AllowedFields, now + 1)
        /\ now' = now + 1
        /\ conc' = [conc EXCEPT
             !.call[p].pc = "release", !.call[p].committed = TRUE,
             !.call[p].result = Bool(PetIdsOf(pets, 1) # {})]
        /\ UNCHANGED <<users, pet_items, game_sessions>>
     \/ /\ c.op = "update_pet_items"
        /\ pet_items' = AdjustItems(pets, pet_items, 1, "toy", 1)
        /\ now' = now + 1
        /\ conc' = [conc EXCEPT
             !.call[p].pc = "release", !.call[p].committed = TRUE]
        /\ UNCHANGED <<users, pets, game_sessions>>
     \/ /\ c.op = "record_game_session"
        /\ game_sessions' = InsertSessions(game_sessions, pets, 1, "memory",
                                           "win", 1, 1)
        /\ now' = now + 1
        /\ conc' = [conc EXCEPT
             !.call[p].pc = "release", !.call[p].committed = TRUE]
        /\ UNCHANGED <<users, pets, pet_items>>
     \/ /\ c.op = "get_all_active_pets"
        /\ conc' = [conc EXCEPT
             !.call[p].pc = "release",
             !.call[p].exc = ~Bindable(0, 1),
             !.call[p].result =
               Rows(OrderByLastUpdate(pets, ActiveIds(pets, 72, now)))]
        /\ StoreSame
     \/ /\ c.op = "get_shop_items"
        /\ conc' = [conc EXCEPT
             !.call[p].pc = "release", !.call[p].result = Rows(ItemsOrdered)]
        /\ StoreSame
     \/ /\ c.op = "create_pet"
        /\ conc' = [conc EXCEPT !.call[p].pc = "commit"]
        /\ StoreSame
     \/ /\ c.op = "purchase_item"
        /\ \E row \in PurchaseChoices(pets, "potion", 1) :
             conc' = [conc EXCEPT !.call[p] =
               IF row = NoRow
                 THEN [c EXCEPT !.pc = "release", !.result = NotFound]
               ELSE IF InsufficientCoins(row, row.price * 2)
                 THEN [c EXCEPT !.pc = "release", !.result = Insufficient]
               ELSE [c EXCEPT !.pc = "deduct", !.row = row]]
        /\ StoreSame

(* UPDATE pets SET coins = coins - $1 of purchase_item: takes the lock of  *)
(* the user's pet rows, or waits for it                                    *)
Deduct(p) ==
  /\ CallOf(p).pc = "deduct"
  /\ conc.lock = 0
  /\ conc' = [conc EXCEPT !.lock = p, !.call[p].pc = "commit"]
  /\ StoreSame /\ ManagerSame /\ UNCHANGED cache

(* The transaction block ends: its writes become the committed rows *)
Commit(p) ==
  LET c == CallOf(p) IN
  /\ c.pc = "commit"
  /\ ManagerSame /\ UNCHANGED cache
  /\ now' = now + 1
  /\ UNCHANGED game_sessions
  /\ \/ /\ c.op = "create_pet"
        /\ users' = users \cup {1}
        /\ pets' = InsertPet(pets, NewPetRow(1, "Tamagotchi", now + 1))
        /\ pet_items' = SeedItems(pet_items, Len(pets) + 1)
        /\ conc' = [conc EXCEPT
             !.call[p].pc = "release", !.call[p].committed = TRUE]
     \/ /\ c.op = "purchase_item"
        /\ pets' = DeductCoins(pets, 1, c.row.price * 2)
        /\ pet_items' = UpsertItem(pet_items, c.row.pet_id, c.row.id, 2)
        /\ conc' = [conc EXCEPT
             !.lock = 0,
             !.call[p].pc = "release", !.call[p].committed = TRUE,
             !.call[p].result = Success(c.row.price * 2)]
        /\ UNCHANGED users

(* The call as it leaves its async with block: an exception goes on to the *)
(* caller, a return inside the block returns, and otherwise the code after *)
(* the block is next                                                       *)
Writers == {"create_pet", "update_pet", "update_pet_items"}

(* The invalidation in a finally clause: it runs after a failed write too *)
LeaveBlock_finally(c) ==
  IF c.exc /\ c.op \notin Writers THEN Raises(c)
  ELSE IF c.pc = "get_release"
    THEN IF c.row = NoRow THEN Returns(c, Absent)
         ELSE [c EXCEPT !.pc = "get_after"]
  ELSE IF c.op \in Writers \cup {"get_shop_items"}
    THEN [c EXCEPT !.pc = "after"]
  ELSE Returns(c, IF c.op = "record_game_session" THEN [void |-> TRUE]
                  ELSE c.result)

LeaveBlock(c) ==
  IF c.exc THEN Raises(c)
  ELSE IF c.pc = "get_release"
    THEN IF c.row = NoRow THEN Returns(c, Absent)
         ELSE [c EXCEPT !.pc = "get_after"]
  ELSE IF c.op \in Writers \cup {"get_shop_items"}
    THEN [c EXCEPT !.pc = "after"]
  ELSE Returns(c, IF c.op = "record_game_session" THEN [void |-> TRUE]
                  ELSE c.result)

Release(p) ==
  /\ CallOf(p).pc \in {"release", "get_release"}
  /\ conc' = [conc EXCEPT
       !.sessions = @ - (CallOf(p).held - scoped_exit(CallOf(p))),
       !.call[p] = [LeaveBlock(CallOf(p)) EXCEPT
                      !.held = scoped_exit(CallOf(p))]]
  /\ StoreSame /\ ManagerSame /\ UNCHANGED cache

(* The code after the block, up to the return or the next await *)
After(p) ==
  LET c == CallOf(p) IN
  /\ c.pc \in {"after", "get_after"}
  /\ StoreSame /\ ManagerSame
  /\ IF CacheFails(DB)
       THEN /\ conc' = [conc EXCEPT !.call[p] = Raises(c)]
            /\ UNCHANGED cache
     ELSE IF c.pc = "get_after"
       THEN /\ conc' = [conc EXCEPT !.call[p] = Returns(c, Found(c.row))]
            /\ cache' = IF redis_client # None
                          THEN [cache EXCEPT ![PetKey(1)] = json_dumps(c.row)]
                          ELSE cache
     ELSE IF c.op = "get_shop_items"
       THEN /\ conc' = [conc EXCEPT !.call[p] = Returns(c, c.result)]
            /\ cache' = IF redis_client # None
                          THEN [cache EXCEPT ![ShopKey] = json_dumps(c.result.rows)]
                          ELSE cache
     ELSE LET S2 == cache_delete(DB, St, PetKey(1))
              c2 == [c EXCEPT !.cleared = redis_client # None]
          IN /\ cache' = S2.cache
             /\ conc' = [conc EXCEPT !.call[p] =
                  IF c.op = "create_pet"
                    THEN get_prefix(DB, c2, S2.cache[PetKey(1)])
                    ELSE Returns(c2, IF c.op = "update_pet" THEN c.result
                                     ELSE [void |-> TRUE])]

Proceed(p) ==
  \/ Acquire(p)
  \/ Fetch(p)
  \/ Execute(p)
  \/ Deduct(p)
  \/ Commit(p)
  \/ Release(p)
  \/ After(p)

NextCalls ==
  \/ \E p \in Callers, op \in Operations, updates \in CallUpdates :
       Begin(p, op, updates)
  \/ \E p \in Callers : Fault(p)
  \/ \E p \in Callers : Proceed(p)

SpecCalls == InitCalls /\ [][NextCalls]_vars

(* The event loop resumes every coroutine that can go on, the pool hands a *)
(* free session to every waiter in turn, and the store answers             *)
SpecCallsFair == SpecCalls /\ \A p \in Callers : SF_vars(Proceed(p))

-----------------------------------------------------------------------------
(* Properties *)

Max(a, b) == IF a < b THEN b ELSE a

(* C1: in every reachable state every inventory entry's quantity is >= 0,  *)
(* purchase taking any integer quantity                                    *)
C1_InventoryNonNegative ==
  \A k \in DOMAIN pet_items : pet_items[k] >= 0

(* C2: from a state where every pet row has coins >= 0, every pet row      *)
(* still has coins >= 0 after a purchase returns                           *)
C2_CoinsNonNegativeAfterPurchase ==
  [][ ( /\ \A p \in DOMAIN pets : pets[p].coins >= 0
        /\ last'.op = "purchase" )
      => \A p \in DOMAIN pets' : pets'[p].coins >= 0 ]_vars

(* The inputs of a purchase call *)
PurchaseArgs ==
  [user : Users, item : ItemNames, quantity : Quantities, fault : 0..3]

PurchaseOut(a, row) ==
  purchase_item(DB, St, a.user, a.item, a.quantity, row, a.fault)

(* C5: a purchase that fails because the item or the pet is missing, or    *)
(* because balance < price * quantity, returns a failure result with the   *)
(* matching reason instead of raising, and leaves pets, inventory and      *)
(* cache as they were: in every reachable state, for every input           *)
C5_FailedPurchaseChangesNothing ==
  \A a \in PurchaseArgs :
    \A row \in PurchaseChoices(pets, a.item, a.user) :
      \A out \in {PurchaseOut(a, row)} :
        LET missing == ItemsNamed(a.item) = {} \/ PetIdsOf(pets, a.user) = {}
            short == ~missing /\ row.coins < row.price * a.quantity
        IN /\ (pool # None /\ a.fault = 0 /\ missing) =>
                (~out.raised /\ out.result = NotFound)
           /\ (pool # None /\ a.fault = 0 /\ short) =>
                (~out.raised /\ out.result = Insufficient)
           /\ (~out.raised /\ ~out.result.success) =>
                /\ (missing \/ short)
                /\ out.state = St

(* a purchase has returned "Insufficient coins" / "Item or pet not found"  *)
C5_Witness ==
  /\ last.op = "purchase"
  /\ ~last.raised
  /\ last.result = Insufficient
  /\ Len(pets) > 0
  /\ cache[PetKey(1)] # NoEntry

(* C6: a purchase with balance >= price * quantity returns success with    *)
(* cost = price * quantity, lowers the user's pet balance by exactly that, *)
(* raises the pet's quantity of the item by exactly quantity (creating the *)
(* row when absent) and changes no other item and no other user's pet      *)
C6_SuccessfulPurchaseEffect ==
  \A a \in PurchaseArgs :
    \A row \in PurchaseChoices(pets, a.item, a.user) :
      ( /\ pool # None /\ a.fault = 0
        /\ row # NoRow
        /\ row.coins >= row.price * a.quantity ) =>
        \A out \in {PurchaseOut(a, row)} :
        LET price == (CHOOSE c \in Range(Catalog) : c.name = a.item).price
            key == <<row.pet_id, row.id>>
            before == IF key \in DOMAIN pet_items THEN pet_items[key] ELSE 0
            pets2 == out.state.pets
            items2 == out.state.pet_items
        IN /\ ~out.raised
           /\ out.result = Success(price * a.quantity)
           /\ DOMAIN pets2 = DOMAIN pets
           /\ \A p \in DOMAIN pets :
                IF pets[p].user_id = a.user
                  THEN pets2[p] = [pets[p] EXCEPT
                                     !.coins = pets[p].coins - price * a.quantity]
                  ELSE pets2[p] = pets[p]
           /\ DOMAIN items2 = DOMAIN pet_items \cup {key}
           /\ items2[key] = before + a.quantity
           /\ \A k \in DOMAIN pet_items : k # key => items2[k] = pet_items[k]
           /\ out.state.users = users

(* a purchase of 2 potions at price 2 succeeded for user 1, whose pet had  *)
(* 4 coins and no potion row, a pet of user 2 being in the store           *)
C6_Witness ==
  /\ last.op = "purchase"
  /\ ~last.raised
  /\ last.result = Success(4)
  /\ \E p \in DOMAIN pets : pets[p].user_id = 2 /\ pets[p].coins = 2
  /\ \E p \in DOMAIN pets :
       /\ pets[p].user_id = 1 /\ pets[p].coins = 0
       /\ <<p, 3>> \in DOMAIN pet_items /\ pet_items[<<p, 3>>] = 2

(* The rows of one user: the pet rows and their inventory *)
UserRows(ps, inv, user_id) ==
  <<[p \in PetIdsOf(ps, user_id) |-> ps[p]],
    [k \in {k \in DOMAIN inv : k[1] \in PetIdsOf(ps, user_id)} |-> inv[k]]>>

(* C4: every operation that commits a write changing a user's pet snapshot *)
(* (create, update, adjustItemQuantity, purchase) has deleted pet:{userId}  *)
(* by the time it returns: no entry written before it started remains      *)
C4_InvalidatedOnReturn ==
  [][ ( /\ last'.op \in {"create", "update", "adjustItemQuantity", "purchase"}
        /\ ~last'.raised )
      => \A u \in Users :
           UserRows(pets', pet_items', u) # UserRows(pets, pet_items, u) =>
             \/ cache'[PetKey(u)] = NoEntry
             \/ /\ last'.op = "create"
                /\ \E p \in PetIdsOf(pets', u) :
                     cache'[PetKey(u)] = json_dumps(PetData(St', p)) ]_vars

(* C9: with the cache backend down (the client exists, every command on it *)
(* fails), getByUser, listItems, create, update and adjustItemQuantity     *)
(* still complete from the store                                           *)
C9_CacheDownDegrades ==
  [][ ( /\ pool # None /\ redis_client # None /\ ~redis_up
        /\ last'.op \in {"getByUser", "listItems", "create", "update",
                         "adjustItemQuantity"}
        /\ last'.fault = 0 )
      => ~last'.raised ]_vars

(* The writes of a successful purchase are in S2: the deduction on every   *)
(* pet row of the user and the upsert of the inventory row                 *)
HasDeduction(S2, a, row) ==
  \A p \in PetIdsOf(pets, a.user) :
    S2.pets[p].coins = pets[p].coins - row.price * a.quantity

HasUpsert(S2, a, row) ==
  LET key == <<row.pet_id, row.id>> IN
  /\ key \in DOMAIN S2.pet_items
  /\ S2.pet_items[key] =
       (IF key \in DOMAIN pet_items THEN pet_items[key] ELSE 0) + a.quantity

CreateArgs == [user : Users, fault : 0..4]

(* The writes of create are in S2: the user, the pet row and one inventory *)
(* row per catalog item                                                    *)
HasCreated(S2, user_id) ==
  LET new == Len(pets) + 1 IN
  /\ user_id \in S2.users
  /\ Len(S2.pets) = new
  /\ S2.pets[new].user_id = user_id
  /\ \A c \in Range(Catalog) : <<new, c.id>> \in DOMAIN S2.pet_items

(* C7: create and purchase are all-or-nothing: with a store fault at a     *)
(* statement of the transaction the store holds none of the operation's    *)
(* writes afterwards, and otherwise it holds all of them                   *)
C7_AllOrNothing ==
  /\ \A a \in PurchaseArgs :
       \A row \in PurchaseChoices(pets, a.item, a.user) :
         \A out \in {PurchaseOut(a, row)} :
         IF out.raised \/ ~out.result.success
           THEN StoreOf(out.state) = StoreOf(St)
           ELSE /\ a.fault = 0
                /\ HasDeduction(out.state, a, row)
                /\ HasUpsert(out.state, a, row)
  /\ \A a \in CreateArgs :
       \A pet_id \in PetIdsOf(pets, a.user) \cup {Len(pets) + 1} :
         \A out \in {create_pet(DB, St, a.user, "Tamagotchi", now + 1,
                               a.fault, pet_id)} :
           IF pool = None \/ a.fault \in 1..3
             THEN out.raised /\ StoreOf(out.state) = StoreOf(St)
             ELSE HasCreated(out.state, a.user)

(* a purchase was rolled back after its coin deduction: the store failed   *)
(* at the inventory upsert                                                 *)
C7_Witness ==
  /\ last.op = "purchase"
  /\ last.raised
  /\ last.fault = 3
  /\ \E p \in DOMAIN pets : pets[p].coins = 4

AllowedUpdates ==
  {upd \in UpdateInputs : DOMAIN upd # {} /\ DOMAIN upd \subseteq AllowedFields}

(* C8: after an update holding only allowed fields has returned, getByUser *)
(* yields the new value of each updated field and a last_update strictly   *)
(* later than before the update, whether or not pet:{userId} was cached    *)
C8_UpdateThenGet ==
  \A u \in Users, upd \in AllowedUpdates :
    \A out \in {update_pet(DB, St, u, upd, now + 1)} :
    (PetIdsOf(pets, u) # {} /\ ~out.raised) =>
      \A pet_id \in FetchChoices(out.state.pets, u) :
        \A got \in {get_pet_by_user_id(DB, out.state, u, pet_id, FALSE)} :
        /\ ~got.raised
        /\ got.result.found
        /\ \A f \in DOMAIN upd : got.result.pet[f] = upd[f]
        /\ \A p \in PetIdsOf(pets, u) :
             got.result.pet.last_update > timestamp(pets[p].last_update)
        /\ cache[PetKey(u)] # NoEntry =>
             got.result.pet.last_update > json_loads(cache[PetKey(u)]).last_update
        /\ \A again \in FetchChoices(out.state.pets, u) :
             get_pet_by_user_id(DB, got.state, u, again, FALSE).result = got.result

(* an update of an allowed field returned true for a user whose pet was    *)
(* cached when it was called                                               *)
C8_Witness ==
  /\ last.op = "update"
  /\ ~last.raised
  /\ last.result = Bool(TRUE)
  /\ last.cached

(* C10: adjustItemQuantity leaves every entry of the user's pet and the    *)
(* named item at max(0, q + delta) and every other entry unchanged         *)
C10_AdjustClamps ==
  \A u \in Users, i \in AdjustNames, d \in Deltas :
    pool # None =>
      \A out \in {update_pet_items(DB, St, u, i, d)} :
      LET items2 == out.state.pet_items
      IN /\ DOMAIN items2 = DOMAIN pet_items
         /\ \A k \in DOMAIN pet_items :
              items2[k] =
                IF /\ pets[k[1]].user_id = u
                   /\ (CHOOSE c \in Range(Catalog) : c.id = k[2]).name = i
                  THEN Max(0, pet_items[k] + d)
                  ELSE pet_items[k]
         /\ out.state.pets = pets

(* adjustItemQuantity(-2) has taken a toy quantity of 1 to 0, not to -1    *)
C10_Witness ==
  /\ last.op = "adjustItemQuantity"
  /\ ~last.raised
  /\ \E k \in DOMAIN pet_items : k[2] = 2 /\ pet_items[k] = 0

(* C11: update returns true exactly when the call wrote at least one pet    *)
(* row: false when the user has no pet, when updates is empty and when     *)
(* updates holds no allowed field; true when the user has a pet and        *)
(* updates holds an allowed field                                          *)
C11_UpdateReturnsWritten ==
  \A u \in Users, upd \in UpdateInputs :
    \A out \in {update_pet(DB, St, u, upd, now + 1)} :
    LET allowed == DOMAIN upd \cap AllowedFields
        written == \E p \in DOMAIN pets : out.state.pets[p] # pets[p]
    IN /\ (DOMAIN upd = {} \/ allowed = {}) =>
            (~out.raised /\ out.result = Bool(FALSE))
       /\ ~out.raised =>
            /\ out.result = Bool(written)
            /\ PetIdsOf(pets, u) = {} => out.result = Bool(FALSE)
            /\ (PetIdsOf(pets, u) # {} /\ allowed # {}) =>
                 out.result = Bool(TRUE)

(* an update has returned false with pets of another user in the store *)
C11_Witness ==
  /\ last.op = "update"
  /\ ~last.raised
  /\ last.result = Bool(FALSE)
  /\ pool # None
  /\ pets # << >>

(* C12: update changes no pet attribute outside the allow-list: id, owning *)
(* user id, name and birth timestamp of every pet are the same after the   *)
(* call; a field outside the allow-list is ignored without an error (the   *)
(* call does what it does without that field); a call whose fields are all *)
(* dropped leaves the store and the cache unchanged                        *)
C12_UpdateFrame ==
  \A u \in Users, upd \in UpdateInputs :
    \A out \in {update_pet(DB, St, u, upd, now + 1)} :
    LET allowed == DOMAIN upd \cap AllowedFields
        kept == [f \in allowed |-> upd[f]]
        pets2 == out.state.pets
    IN /\ DOMAIN pets2 = DOMAIN pets
       /\ \A p \in DOMAIN pets :
            /\ pets2[p].user_id = pets[p].user_id
            /\ pets2[p].name = pets[p].name
            /\ pets2[p].birth_time = pets[p].birth_time
            /\ \A f \in DOMAIN pets[p] \ (allowed \cup {"last_update"}) :
                 pets2[p][f] = pets[p][f]
       /\ out.state.users = users
       /\ out.state.pet_items = pet_items
       /\ out = update_pet(DB, St, u, kept, now + 1)
       /\ allowed = {} => (~out.raised /\ out.state = St)

(* an update whose fields were all dropped has returned false for a user   *)
(* whose pet was cached, and the entry is still there                      *)
C12_Witness ==
  /\ last.op = "update"
  /\ ~last.raised
  /\ last.result = Bool(FALSE)
  /\ last.cached
  /\ \E u \in Users : cache[PetKey(u)] # NoEntry

(* The inventory of a freshly created pet: 1 of each starter item, 0 of    *)
(* every other catalog item                                                *)
Seeded(items) ==
  \A c \in Range(Catalog) :
    /\ c.name \in DOMAIN items
    /\ items[c.name] = IF c.name \in {"medicine", "toy"} THEN 1 ELSE 0

(* C13: for every user id and every prior store and cache state, the pet   *)
(* that create returns, and the pet a following getByUser returns, has     *)
(* quantity 1 for medicine and toy and 0 for every other catalog item      *)
C13_CreateReturnsSeededPet ==
  \A u \in Users :
    \A pet_id \in PetIdsOf(pets, u) \cup {Len(pets) + 1} :
      \A out \in {create_pet(DB, St, u, "Tamagotchi", now + 1, 0, pet_id)} :
      ~out.raised =>
        /\ out.result.found
        /\ Seeded(out.result.pet.items)
        /\ \A again \in FetchChoices(out.state.pets, u) :
             \A got \in {get_pet_by_user_id(DB, out.state, u, again, FALSE)} :
             ~got.raised => (got.result.found /\ Seeded(got.result.pet.items))

(* A pet's state: its row and its inventory rows *)
PetState(S, p) ==
  <<S.pets[p],
    [k \in {k \in DOMAIN S.pet_items : k[1] = p} |-> S.pet_items[k]]>>

(* Every pet whose state differs in S2 has a strictly later last_update *)
AdvancesChanged(S2) ==
  \A p \in DOMAIN pets :
    PetState(S2, p) # PetState(St, p) =>
      timestamp(S2.pets[p].last_update) > timestamp(pets[p].last_update)

(* C14: every write that changes a pet's state (update with an allowed     *)
(* field, adjustItemQuantity on an existing entry, successful purchase;    *)
(* create writes a new pet) advances that pet's last_update to a value     *)
(* strictly later than it held before the write                            *)
C14_WritesAdvanceLastUpdate ==
  /\ \A u \in Users, upd \in UpdateInputs :
       AdvancesChanged(update_pet(DB, St, u, upd, now + 1).state)
  /\ \A u \in Users :
       \A pet_id \in PetIdsOf(pets, u) \cup {Len(pets) + 1} :
         AdvancesChanged(create_pet(DB, St, u, "Tamagotchi", now + 1, 0,
                                    pet_id).state)
  /\ \A u \in Users, i \in AdjustNames, d \in Deltas :
       AdvancesChanged(update_pet_items(DB, St, u, i, d).state)
  /\ \A a \in PurchaseArgs :
       \A row \in PurchaseChoices(pets, a.item, a.user) :
         AdvancesChanged(PurchaseOut(a, row).state)

(* C15: create called n times for one user who had no pet leaves exactly n *)
(* distinct pet rows of that user: every create whose transaction commits  *)
(* adds one row with a new id owned by the user and leaves every existing  *)
(* row, of this user too, as it was; one that is rolled back adds none     *)
C15_CreateAppendsRow ==
  \A a \in CreateArgs :
    \A pet_id \in PetIdsOf(pets, a.user) \cup {Len(pets) + 1} :
      \A out \in {create_pet(DB, St, a.user, "Tamagotchi", now + 1, a.fault,
                            pet_id)} :
      LET pets2 == out.state.pets
          new == Len(pets) + 1
      IN IF pool # None /\ a.fault \in {0, 4}
           THEN /\ DOMAIN pets2 = DOMAIN pets \cup {new}
                /\ \A p \in DOMAIN pets : pets2[p] = pets[p]
                /\ pets2[new].user_id = a.user
                /\ Cardinality(PetIdsOf(pets2, a.user)) =
                     Cardinality(PetIdsOf(pets, a.user)) + 1
           ELSE pets2 = pets

(* create has returned for the second time for user 2, who had no pet: the *)
(* store holds two rows of user 2, born at the two calls                   *)
C15_Witness ==
  /\ last.op = "create"
  /\ ~last.raised
  /\ Cardinality(PetIdsOf(pets, 2)) = 2
  /\ \E p, q \in PetIdsOf(pets, 2) :
       /\ p < q
       /\ timestamp(pets[p].birth_time) < timestamp(pets[q].birth_time)

(* C16: each recordSession call, for every user id and every reachable     *)
(* store state, appends exactly one game-session row, tied to the user's   *)
(* pet, leaves the earlier session rows unchanged, and neither reads nor   *)
(* writes a cache key (its outcome is the same with the cache backend up   *)
(* or down, and the cache is as before)                                    *)
C16_RecordAppendsOneRow ==
  \A u \in Users, r \in GameResults :
    pool # None =>
      \A out \in {record_game_session(DB, St, u, "memory", r, 1, 1)} :
      LET gs2 == out.state.game_sessions
      IN /\ ~out.raised
         /\ Len(gs2) = Len(game_sessions) + 1
         /\ gs2[Len(gs2)].pet_id \in PetIdsOf(pets, u)
         /\ SubSeq(gs2, 1, Len(game_sessions)) = game_sessions
         /\ out.state.cache = cache
         /\ out = record_game_session([DB EXCEPT !.redis_up = ~redis_up], St,
                                      u, "memory", r, 1, 1)

(* C17: a cache hit never reads the store: listItems called while          *)
(* shop:items is cached, and getByUser called while pet:{userId} is        *)
(* cached, return the cached value and leave the count of store reads, the *)
(* store and the cache as they were, the store failing or not; also when   *)
(* the cached catalog is the empty one                                     *)
C17_HitReadsNoStore ==
  (redis_client # None /\ redis_up) =>
    /\ \A u \in Users :
         cache[PetKey(u)] # NoEntry =>
           \A pet_id \in FetchChoices(pets, u), fault \in BOOLEAN :
             \A out \in {get_pet_by_user_id(DB, St, u, pet_id, fault)} :
             /\ ~out.raised
             /\ out.result = Found(json_loads(cache[PetKey(u)]))
             /\ out.state.reads = St.reads
             /\ out.state = St
    /\ cache[ShopKey] # NoEntry =>
         \A out \in {get_shop_items(DB, St)} :
         /\ ~out.raised
         /\ out.result = json_loads(cache[ShopKey])
         /\ out.state.reads = St.reads
         /\ out.state = St

(* listItems has returned the cached empty catalog, the items table        *)
(* holding three items, while the pet of user 1 is cached                  *)
C17_Witness ==
  /\ last.op = "listItems"
  /\ ~last.raised
  /\ last.result = << >>
  /\ cache[ShopKey] = json_dumps(<< >>)
  /\ cache[PetKey(1)] # NoEntry

(* C20: listStale(thresholdHours) returns exactly the pets whose           *)
(* last_update lies within the trailing thresholdHours window, in          *)
(* ascending last_update order, and neither reads nor writes a cache key   *)
C20_ListStaleWindow ==
  \A h \in StaleHours :
    pool # None =>
      \A out \in {get_all_active_pets(DB, St, h, now)} :
      LET res == out.result
          within == {p \in DOMAIN pets :
                       timestamp(pets[p].last_update) > now - h}
      IN /\ ~out.raised
         /\ Len(res) = Cardinality(within)
         /\ {res[i].id : i \in 1..Len(res)} = within
         /\ \A i, j \in 1..Len(res) :
              i < j => timestamp(res[i].last_update)
                         <= timestamp(res[j].last_update)
         /\ out.state.cache = cache
         /\ out = get_all_active_pets([DB EXCEPT !.redis_up = ~redis_up], St,
                                      h, now)

(* C18: healthCheck never raises, in any manager state (before initialize, *)
(* after initialize, after close, with either backend down): it returns    *)
(* one boolean per backend, and a failing backend makes only its own flag  *)
(* false and leaves the other backend's flag as it is                      *)
C18_HealthCheckNeverRaises ==
  \A store_fault \in BOOLEAN :
    \A h \in {health_check(DB, store_fault)} :
    /\ ~h.raised
    /\ DOMAIN h.result = {"postgresql", "redis"}
    /\ h.result.postgresql \in BOOLEAN /\ h.result.redis \in BOOLEAN
    /\ (store_fault \/ pool # "open") => ~h.result.postgresql
    /\ (~redis_up \/ redis_client = None) => ~h.result.redis
    /\ health_check(DB, ~store_fault).result.redis = h.result.redis
    /\ health_check([DB EXCEPT !.redis_up = ~redis_up], store_fault)
           .result.postgresql = h.result.postgresql

(* a health check made after close, the store not answering, has reported  *)
(* the store down and Redis up                                             *)
C18_Witness ==
  /\ last.op = "healthCheck"
  /\ ~last.raised
  /\ last.result = [postgresql |-> FALSE, redis |-> TRUE]
  /\ pool = "closed"

(* C19: initialize aborts with an error when the store pool cannot be      *)
(* established, and completes without an error when only the cache client  *)
(* cannot be established (the client cannot be constructed, or the Redis   *)
(* server is down), leaving the manager usable (getByUser completes) with  *)
(* the cache marked unavailable (no client)                                *)
C19_InitializeTolerance ==
  pool = None =>
    /\ initialize(DB, 1).raised
    /\ initialize(DB, 1).db.pool = None
    /\ ~redis_up =>
         \A out \in {initialize(DB, 0)} :
         /\ ~out.raised
         /\ out.db.redis_client = None
         /\ \A u \in Users :
              \A pet_id \in FetchChoices(pets, u) :
                ~get_pet_by_user_id(out.db, St, u, pet_id, FALSE).raised
    /\ \A out \in {initialize(DB, 2)} :
       /\ ~out.raised
       /\ out.db.pool = "open"
       /\ out.db.redis_client = None

(* The cost a purchase that reported success charged *)
Charged(p) ==
  IF Tx(p).pc = "done" /\ Tx(p).result.success
    THEN Tx(p).result.cost ELSE 0

(* C3: two overlapping purchases for one user never jointly overdraw the   *)
(* pet: the costs of those that report success sum to at most the balance  *)
(* before both started, and the final balance is >= 0                      *)
C3_NoJointOverdraw ==
  (\A p \in Procs : Tx(p).pc = "done") =>
    /\ Charged(1) + Charged(2) <= conc.coins0
    /\ \A i \in DOMAIN pets : pets[i].coins >= 0

-----------------------------------------------------------------------------
(* Properties of overlapping calls *)

(* C21: create, update and adjustItemQuantity delete pet:{userId} only     *)
(* after their store write has committed: a call that has deleted the key  *)
(* has committed its write, and a call whose write failed or was rolled    *)
(* back has deleted nothing.                                               *)
C21_InvalidateAfterCommit ==
  \A p \in Callers : ~CallOf(p).committed => ~CallOf(p).cleared

(* One call has committed and then deleted the key, and the other call's   *)
(* creation was rolled back: it raised and left the key alone              *)
C21_Witness ==
  \E p, q \in Callers :
    /\ CallOf(p).op = "update_pet" /\ ~InFlight(p)
    /\ CallOf(p).committed /\ CallOf(p).cleared
    /\ CallOf(q).op = "create_pet" /\ ~InFlight(q)
    /\ CallOf(q).exc /\ CallOf(q).raised /\ ~CallOf(q).cleared

(* C22: every repository operation gives back the session it acquired on  *)
(* every exit path: the sessions checked out never exceed the pool's       *)
(* maximum, and none is checked out while no call is in flight.            *)
C22_SessionsReleased ==
  /\ conc.sessions <= conc.size
  /\ (\A p \in Callers : ~InFlight(p)) => conc.sessions = 0

(* Both calls are over: a purchase that returned a failure from inside its *)
(* block, and a call whose statement raised                                *)
C22_Witness ==
  \E p, q \in Callers :
    /\ ~InFlight(p) /\ ~InFlight(q)
    /\ CallOf(p).op = "purchase_item"
    /\ CallOf(p).result \in {NotFound, Insufficient}
    /\ CallOf(q).op \in {"update_pet", "get_pet_by_user_id"}
    /\ CallOf(q).exc /\ CallOf(q).raised

(* The only two calls made are a getByUser and an update or an             *)
(* adjustItemQuantity, and both have returned                              *)
ReaderAndWriterDone ==
  /\ conc.started = 2
  /\ \E p, q \in Callers :
       /\ ~InFlight(p) /\ ~InFlight(q)
       /\ CallOf(p).op = "get_pet_by_user_id" /\ ~CallOf(p).raised
       /\ CallOf(q).op \in {"update_pet", "update_pet_items"}
       /\ ~CallOf(q).raised

(* C23: after a getByUser and an update or adjustItemQuantity for the same *)
(* user have both returned, however their steps interleaved, the entry     *)
(* pet:{userId} is absent or equal to the snapshot the store holds.        *)
C23_ReaderWriterCacheFresh ==
  ReaderAndWriterDone =>
    \/ cache[PetKey(1)] = NoEntry
    \/ \E pet_id \in PetIdsOf(pets, 1) :
         json_loads(cache[PetKey(1)]) = PetData(St, pet_id)

(* C24: no call waits for a session while it holds one, and so, with a     *)
(* pool of any size from 1 up, a fair scheduler and a store that answers,  *)
(* every caller waiting for a session gets one and every call returns.     *)
C24_EveryCallReturns ==
  /\ [](\A p \in Callers : Waiting(p) => CallOf(p).held = 0)
  /\ \A p \in Callers : Waiting(p) ~> CallOf(p).held = 1
  /\ \A p \in Callers : InFlight(p) ~> ~InFlight(p)

(* A create has given its first session back and waits for the session of  *)
(* its final read while the other caller holds the last one of the pool    *)
C24_Witness ==
  \E p, q \in Callers :
    /\ CallOf(p).op = "create_pet" /\ CallOf(p).pc = "get_acquire"
    /\ CallOf(p).held = 0
    /\ CallOf(q).held = 1
    /\ conc.sessions = conc.size

====
